---------------------------- MODULE Spec2Model ----------------------------
(***************************************************************************)
(* Verification model of the external/blocking-task bridge of Ask-Ocr:     *)
(*   - the audio worker thread and its command channel (player.rs),        *)
(*   - the streamed model pull (ollama/commands.rs),                       *)
(*   - the clipboard polling watcher (screenshot/mod.rs),                  *)
(*   - the helper-process invokers and the download cancel flag            *)
(*     (audio_ai/mod.rs, file_helpers/mod.rs, music/mod.rs).               *)
(* Each component has its own specification (SpecPlayer, SpecPull,         *)
(* SpecWait, SpecInvoke); the variables of the other components stay at    *)
(* their initial values.                                                   *)
(***************************************************************************)
EXTENDS Integers, Sequences, FiniteSets, TLC

VARIABLES
    \* ---- player.rs ----
    chan,        \* the mpsc channel: commands sent and not yet received
    chanOpen,    \* TRUE while the receiver `rx` is alive
    senderLock,  \* holder of Mutex<Sender>: a producer, or "free"
    prodCmd,     \* per producer: the command it carries inside send, or NoCmd
    ret,         \* per producer: what its last call of send returned
    calls,       \* per producer: number of calls of send started
    workerPc,    \* position of the worker thread
    cur,         \* the command the worker has received and is executing
    sink,        \* the rodio Sink owned by the worker thread
    sourceDone,  \* the output device has played the queued source to its end
    sinkLog,     \* history: commands executed against the sink, in order
    accepted,    \* history: commands the channel accepted, in order, each with
                 \* its producer and the producer's call number
    dropped,     \* history: number of commands send dropped
    earlySend,   \* history: a command was accepted while the worker initialised
    \* ---- ollama/commands.rs: ollama_pull_model ----
    pullPc,      \* position of ollama_pull_model
    wire,        \* bytes the server has still to send
    sent,        \* history: every byte of the response body, in order
    item,        \* what stream.next() will yield: a chunk, an error, the end
    taken,       \* number of bytes of the body handed to the runner in chunks
    chunkStart,  \* history: offset in the body of the first byte of the chunk
                 \* the runner took last
    pending,     \* lines of the current chunk the for loop has still to visit
    cursor,      \* offset in the body of the line the loop visited last
    parsedOk,    \* history: number of lines serde_json parsed as PullResponse
    emitted,     \* history: events delivered by window.emit, each with the
                 \* offset of the line it came from
    lastItem,    \* history: kind of the last item stream.next() yielded
    result,      \* what ollama_pull_model returned: Ok(()) is kind "ok",
                 \* Err(msg) has the kind of the failure that produced it
    \* ---- screenshot/mod.rs: wait_for_clipboard_image ----
    waitPc,      \* position of wait_for_clipboard_image
    elapsed,     \* start.elapsed() in milliseconds
    clipImage,   \* the clipboard holds an image
    attempt,     \* the local `attempt`
    success,     \* the local `success`
    imageData,   \* the local `image_data`
    cleanups,    \* history: number of calls of cleanup_latest_screenshot
    waitResult,  \* what wait_for_clipboard_image returned
    everImage,   \* history: the clipboard held an image at some time of the wait
    imageWait,   \* history: milliseconds for which the clipboard has held an
                 \* image without a break, counted from the end of the initial
                 \* sleep at the earliest and up to WaitCap; -1 without image
    \* ---- audio_ai, file_helpers, music: the helper-process invokers ----
    invPc,       \* position of the command that is called
    invCmd,      \* the command that is called
    env,         \* the files and the search path the call finds
    child,       \* the child process of the call
    spawned,     \* history: number of child processes ever created
    invCalls,    \* history: number of calls of a command
    outcomes,    \* history: number of results returned
    invResult,   \* what the command returned
    cancelFlag,  \* CANCEL_DOWNLOAD
    cancelAt,    \* history: where the call was when cancel_model_download
                 \* came last during it, or "none"
    cmdline,     \* history: the program and the script of the Command the
                 \* call built, or NoCmdline
    \* ---- audio_ai/mod.rs: downloads running side by side ----
    taskPc,      \* per invocation of a download command: its position
    taskCmd,     \* per invocation: the download command it runs
    inFlightCancel, \* history, per invocation: cancel_model_download was
                 \* called while it was running
    starts,      \* number of download commands started
    lastWrite,   \* history: the last store into CANCEL_DOWNLOAD
    \* ---- shortcuts/mod.rs ----
    registered,  \* accelerators registered with the global shortcut manager
    shortcuts,   \* ShortcutState.shortcuts: per id its accelerator, or NoEntry
    shortcutCalls, \* number of shortcut commands called
    shortcutResult \* what the last shortcut command returned

playerVars == <<chan, chanOpen, senderLock, prodCmd, ret, calls, workerPc, cur,
                sink, sourceDone, sinkLog, accepted, dropped, earlySend>>

pullVars == <<pullPc, wire, sent, item, taken, chunkStart, pending, cursor, parsedOk, emitted,
             lastItem, result>>

waitVars == <<waitPc, elapsed, clipImage, attempt, success, imageData, cleanups, waitResult,
             everImage, imageWait>>

invokeVars == <<invPc, invCmd, env, child, spawned, invCalls, outcomes, invResult,
               cancelFlag, cancelAt, cmdline>>

taskVars == <<taskPc, taskCmd, inFlightCancel, starts, lastWrite>>

shortcutVars == <<registered, shortcuts, shortcutCalls, shortcutResult>>

vars == <<playerVars, pullVars, waitVars, invokeVars, taskVars, shortcutVars>>

\* what a step of one component leaves alone: the other components
besidesPlayer == <<pullVars, waitVars, invokeVars, taskVars, shortcutVars>>

besidesPull == <<playerVars, waitVars, invokeVars, taskVars, shortcutVars>>

besidesWait == <<playerVars, pullVars, invokeVars, taskVars, shortcutVars>>

besidesInvoke == <<playerVars, pullVars, waitVars, taskVars, shortcutVars>>

\* the downloads running side by side share CANCEL_DOWNLOAD with the invokers
besidesTasks == <<playerVars, pullVars, waitVars, invPc, invCmd, env, child, spawned,
                  invCalls, outcomes, invResult, cancelAt, cmdline, shortcutVars>>

besidesShortcuts == <<playerVars, pullVars, waitVars, invokeVars, taskVars>>

-----------------------------------------------------------------------------
(* Bounds of the model *)

\* total number of calls of AudioPlayer::send over all producers
MaxSends == 2

\* number of lines in the body of a pull response
MaxLines == 3

\* number of calls of a command that runs a helper process
MaxCalls == 2

\* number of lines in a body of records with special numbers or errors
MaxRecords == 2

\* number of download commands started side by side or one after another
MaxStarts == 3

\* number of shortcut commands called
MaxShortcutCalls == 4

-----------------------------------------------------------------------------
(* player.rs: AudioCommand, AudioPlayer *)

Producers == {"ui1", "ui2"}

\* files a Play command may name: one that plays, one that cannot be opened,
\* one that opens and cannot be decoded
Paths == {"a.mp3", "missing.mp3", "corrupt.mp3"}

FileOpens(path) == path # "missing.mp3"

Decodes(path) == path = "a.mp3"

\* volumes in tenths (f32 in the code), seek times in seconds
Volumes == {5}

SeekTimes == {3}

AudioCommand ==
    [op : {"Play"}, arg : Paths]
    \cup [op : {"Pause", "Resume", "Stop"}, arg : {0}]
    \cup [op : {"SetVolume"}, arg : Volumes]
    \cup [op : {"Seek"}, arg : SeekTimes]

NoCmd == [op |-> "none", arg |-> 0]

\* Sink::try_new: an empty, playing sink at volume 1.0
NewSink == [created |-> TRUE, queue |-> <<>>, paused |-> FALSE, volume |-> 10, pos |-> 0]

\* before Sink::try_new has run there is no sink
NoSink == [created |-> FALSE, queue |-> <<>>, paused |-> FALSE, volume |-> 10, pos |-> 0]

\* Sink::empty: no source is left to play
SinkEmpty(s, done) == s.queue = <<>> \/ done

InitPlayer ==
    /\ chan = <<>>
    /\ chanOpen = TRUE
    /\ senderLock = "free"
    /\ prodCmd = [p \in Producers |-> NoCmd]
    /\ ret = [p \in Producers |-> "none"]
    /\ calls = [p \in Producers |-> 0]
    /\ workerPc = "init_stream"
    /\ cur = NoCmd
    /\ sink = NoSink
    /\ sourceDone = FALSE
    /\ sinkLog = <<>>
    /\ accepted = <<>>
    /\ dropped = 0
    /\ earlySend = FALSE


TotalCalls == calls["ui1"] + calls["ui2"]

\* Mutex::lock at the head of AudioPlayer::send. No thread can panic while it
\* holds the lock (the critical section is one channel send), so the mutex is
\* never poisoned and lock() returns Ok once the lock is free.
SendLock(p, c) ==
    /\ UNCHANGED besidesPlayer
    /\ TotalCalls < MaxSends
    /\ prodCmd[p] = NoCmd
    /\ senderLock = "free"
    /\ senderLock' = p
    /\ prodCmd' = [prodCmd EXCEPT ![p] = c]
    /\ calls' = [calls EXCEPT ![p] = @ + 1]
    /\ ret' = [ret EXCEPT ![p] = "none"]
    /\ UNCHANGED <<chan, chanOpen, workerPc, cur, sink, sourceDone, sinkLog,
                   accepted, dropped, earlySend>>

\* send as it would be if it passed the channel's Result on to its caller
SendReturnResult(delivered) == IF delivered THEN "unit" ELSE "err"

\* what send hands back to its caller: `let _ = sender.send(command)` discards
\* the Result, the function returns ()
SendReturn(delivered) == "unit"

\* Sender::send on the unbounded channel: appends when the receiver is alive,
\* fails (and gives the command back) when it was dropped
ChannelSend(q, open, c) == IF open THEN Append(q, c) ELSE q

\* send as it would be if pause_audio also paused the sink from the caller's thread
SendDeliverDirect(p) ==
    /\ UNCHANGED besidesPlayer
    /\ senderLock = p
    /\ chan' = ChannelSend(chan, chanOpen, prodCmd[p])
    /\ accepted' = IF chanOpen
                   THEN Append(accepted, [cmd |-> prodCmd[p], from |-> p, seq |-> calls[p]])
                   ELSE accepted
    /\ dropped' = IF chanOpen THEN dropped ELSE dropped + 1
    /\ earlySend' = (earlySend \/ (chanOpen /\ workerPc \in {"init_stream", "init_sink"}))
    /\ ret' = [ret EXCEPT ![p] = "unit"]
    /\ prodCmd' = [prodCmd EXCEPT ![p] = NoCmd]
    /\ senderLock' = "free"
    /\ sink' = IF sink.created /\ prodCmd[p].op = "Pause"
               THEN [sink EXCEPT !.paused = TRUE]
               ELSE sink
    /\ UNCHANGED <<chanOpen, calls, workerPc, cur, sourceDone, sinkLog>>

\* sender.send(command) under the lock, then the guard is dropped and send returns
SendDeliver(p) ==
    /\ UNCHANGED besidesPlayer
    /\ senderLock = p
    /\ chan' = ChannelSend(chan, chanOpen, prodCmd[p])
    /\ accepted' = IF chanOpen
                   THEN Append(accepted, [cmd |-> prodCmd[p], from |-> p, seq |-> calls[p]])
                   ELSE accepted
    /\ dropped' = IF chanOpen THEN dropped ELSE dropped + 1
    /\ earlySend' = (earlySend \/ (chanOpen /\ workerPc \in {"init_stream", "init_sink"}))
    /\ ret' = [ret EXCEPT ![p] = SendReturn(chanOpen)]
    /\ prodCmd' = [prodCmd EXCEPT ![p] = NoCmd]
    /\ senderLock' = "free"
    /\ UNCHANGED <<chanOpen, calls, workerPc, cur, sink, sourceDone, sinkLog>>

\* play_audio, pause_audio, resume_audio, stop_audio, set_volume, seek_audio:
\* each builds one AudioCommand and calls send
Caller(p) ==
    \/ \E c \in AudioCommand : SendLock(p, c)
    \/ SendDeliver(p)

\* OutputStream::try_default; on failure the thread returns and `rx` is dropped
\* with whatever the channel holds
WorkerInitStream ==
    /\ UNCHANGED besidesPlayer
    /\ workerPc = "init_stream"
    /\ \E ok \in BOOLEAN :
         IF ok
         THEN /\ workerPc' = "init_sink"
              /\ UNCHANGED <<chan, chanOpen>>
         ELSE /\ workerPc' = "dead"
              /\ chanOpen' = FALSE
              /\ chan' = <<>>
    /\ UNCHANGED <<senderLock, prodCmd, ret, calls, cur, sink, sourceDone,
                   sinkLog, accepted, dropped, earlySend>>

\* Sink::try_new; on failure the thread returns as above
WorkerInitSink ==
    /\ UNCHANGED besidesPlayer
    /\ workerPc = "init_sink"
    /\ \E ok \in BOOLEAN :
         IF ok
         THEN /\ workerPc' = "recv"
              /\ sink' = NewSink
              /\ UNCHANGED <<chan, chanOpen>>
         ELSE /\ workerPc' = "dead"
              /\ chanOpen' = FALSE
              /\ chan' = <<>>
              /\ UNCHANGED sink
    /\ UNCHANGED <<senderLock, prodCmd, ret, calls, cur, sourceDone,
                   sinkLog, accepted, dropped, earlySend>>

\* recv as it would be on a stack: the newest command first
ChannelRecvNewest(q) == [cmd |-> q[Len(q)], rest |-> SubSeq(q, 1, Len(q) - 1)]

\* recv as it would be if it left the command in the channel
ChannelPeek(q) == [cmd |-> Head(q), rest |-> q]

\* Receiver::recv: the oldest command of the channel and the rest
ChannelRecv(q) == [cmd |-> Head(q), rest |-> Tail(q)]

\* `while let Ok(command) = rx.recv()`: blocks while the channel is empty
WorkerRecv ==
    /\ UNCHANGED besidesPlayer
    /\ workerPc = "recv"
    /\ chan # <<>>
    /\ cur' = ChannelRecv(chan).cmd
    /\ chan' = ChannelRecv(chan).rest
    /\ workerPc' = "exec"
    /\ UNCHANGED <<chanOpen, senderLock, prodCmd, ret, calls, sink, sourceDone,
                   sinkLog, accepted, dropped, earlySend>>

\* a stop that would leave the queue as it is
SinkStopKeeps(s) == s

\* Sink::stop: clears the queue
SinkStop(s) == [s EXCEPT !.queue = <<>>]

\* Sink::append: the source joins the sources still to be played
SinkAppend(s, done, src) ==
    [s EXCEPT !.queue = Append(IF done THEN <<>> ELSE s.queue, src), !.pos = 0]

\* Sink::play
SinkPlay(s) == [s EXCEPT !.paused = FALSE]

\* the Play arm as it would be if it stopped the sink before opening the file
ExecPlayStopFirst(s, done, path) ==
    LET stopped == IF ~SinkEmpty(s, done) THEN SinkStop(s) ELSE s
        doneNow == IF ~SinkEmpty(s, done) THEN FALSE ELSE done
    IN  IF FileOpens(path) /\ Decodes(path)
        THEN [sink |-> SinkPlay(SinkAppend(stopped, doneNow, path)), done |-> FALSE]
        ELSE [sink |-> stopped, done |-> doneNow]

\* the Play arm: open, decode, stop what plays, append, play; an open or a
\* decode failure is printed and nothing else happens
ExecPlay(s, done, path) ==
    IF FileOpens(path) /\ Decodes(path)
    THEN LET stopped == IF ~SinkEmpty(s, done) THEN SinkStop(s) ELSE s
             doneNow == IF ~SinkEmpty(s, done) THEN FALSE ELSE done
         IN  [sink |-> SinkPlay(SinkAppend(stopped, doneNow, path)), done |-> FALSE]
    ELSE [sink |-> s, done |-> done]

\* the match on the received command; seekOk is the outcome of Sink::try_seek,
\* which the code discards
ExecCommand(s, done, c, seekOk) ==
    CASE c.op = "Play" -> ExecPlay(s, done, c.arg)
      [] c.op = "Pause" -> [sink |-> [s EXCEPT !.paused = TRUE], done |-> done]
      [] c.op = "Resume" -> [sink |-> SinkPlay(s), done |-> done]
      [] c.op = "Stop" -> [sink |-> SinkStop(s), done |-> FALSE]
      [] c.op = "SetVolume" -> [sink |-> [s EXCEPT !.volume = c.arg], done |-> done]
      [] c.op = "Seek" ->
           [sink |-> IF seekOk /\ ~SinkEmpty(s, done) THEN [s EXCEPT !.pos = c.arg] ELSE s,
            done |-> done]

\* a Play whose file cannot be opened or cannot be decoded
FailingPlay(c) == c.op = "Play" /\ ~(FileOpens(c.arg) /\ Decodes(c.arg))

\* the loop as it would be if the error arms unwrapped: the thread ends
AfterCommandUnwrap(c) == IF FailingPlay(c) THEN "dead" ELSE "recv"

\* where the worker goes after a command: every arm falls through to the next
\* iteration of the loop, the error arms included
AfterCommand(c) == "recv"

\* one iteration body of the worker loop
WorkerExec ==
    /\ UNCHANGED besidesPlayer
    /\ workerPc = "exec"
    /\ \E seekOk \in BOOLEAN :
         LET r == ExecCommand(sink, sourceDone, cur, seekOk)
         IN  /\ sink' = r.sink
             /\ sourceDone' = r.done
    /\ sinkLog' = Append(sinkLog, cur)
    /\ cur' = NoCmd
    /\ workerPc' = AfterCommand(cur)
    /\ UNCHANGED <<chan, chanOpen, senderLock, prodCmd, ret, calls, accepted, dropped, earlySend>>

\* the output device reaches the end of the source it plays
SourceEnds ==
    /\ UNCHANGED besidesPlayer
    /\ sink.created
    /\ sink.queue # <<>>
    /\ ~sink.paused
    /\ ~sourceDone
    /\ sourceDone' = TRUE
    /\ UNCHANGED <<chan, chanOpen, senderLock, prodCmd, ret, calls, workerPc, cur,
                   sink, sinkLog, accepted, dropped, earlySend>>

Worker == WorkerInitStream \/ WorkerInitSink \/ WorkerRecv \/ WorkerExec

NextPlayer ==
    \/ \E p \in Producers : Caller(p)
    \/ Worker
    \/ SourceEnds


-----------------------------------------------------------------------------
(* ollama/commands.rs: PullResponse, DownloadProgress, ollama_pull_model *)

\* Option<T>: {} is None, {v} is Some(v)
None == {}

Some(v) == {v}

\* the JSON objects the server may write on one line, by their fields
JsonObjects ==
    { [status |-> Some("pulling"), completed |-> Some(1), total |-> Some(2), error |-> None],
      [status |-> Some("success"), completed |-> None, total |-> None, error |-> None],
      [status |-> Some("error"), completed |-> None, total |-> None, error |-> Some("no such model")],
      [status |-> None, completed |-> None, total |-> None, error |-> Some("no such model")] }

NoJson == [status |-> None, completed |-> None, total |-> None, error |-> None]

\* the bytes of the body: a JSON object is written as a head and a tail, a
\* blank line as a space, every line ends with a newline
ByteOf(k, j) == [k |-> k, v |-> j]

NL == ByteOf("nl", NoJson)

SP == ByteOf("sp", NoJson)

LineKinds == {<<ByteOf("head", j), ByteOf("tail", j)>> : j \in JsonObjects} \cup {<<SP>>}

\* the bodies a server may send: up to MaxLines lines
Bodies == UNION {[1..n -> LineKinds] : n \in 0..MaxLines}

RECURSIVE BytesOf(_)
BytesOf(ls) == IF ls = <<>> THEN <<>> ELSE Head(ls) \o <<NL>> \o BytesOf(Tail(ls))

\* index of the first newline of bs, 0 when it has none
RECURSIVE FirstNL(_, _)
FirstNL(bs, i) ==
    IF i > Len(bs) THEN 0 ELSE IF bs[i].k = "nl" THEN i ELSE FirstNL(bs, i + 1)

\* str::lines on the text of one chunk: the pieces between newlines, a last
\* piece without a newline included, each with its offset in the body
RECURSIVE StrLines(_, _)
StrLines(bs, base) ==
    IF bs = <<>> THEN <<>>
    ELSE LET n == FirstNL(bs, 1)
         IN  IF n = 0
             THEN <<[at |-> base, bytes |-> bs]>>
             ELSE <<[at |-> base, bytes |-> SubSeq(bs, 1, n - 1)]>>
                  \o StrLines(SubSeq(bs, n + 1, Len(bs)), base + n)

\* line.trim().is_empty()
TrimIsEmpty(bytes) == \A i \in 1..Len(bytes) : bytes[i].k = "sp"

\* serde_json::from_str::<PullResponse>: Ok for one whole JSON object that has
\* the required field status, Err for anything else
FromStr(bytes) ==
    IF /\ Len(bytes) = 2
       /\ bytes[1].k = "head"
       /\ bytes[2].k = "tail"
       /\ bytes[1].v = bytes[2].v
       /\ bytes[1].v.status # None
    THEN [ok |-> TRUE, response |-> bytes[1].v]
    ELSE [ok |-> FALSE, response |-> NoJson]

\* the value of an Option, for one that is Some
Unwrap(o) == CHOOSE v \in o : TRUE

\* the DownloadProgress as it would be without the test of t > 0
ProgressEventUnguarded(response) ==
    LET both == response.completed # None /\ response.total # None
    IN  [status |-> Unwrap(response.status),
         progress |-> IF both
                      THEN [num |-> Unwrap(response.completed) * 100, den |-> Unwrap(response.total)]
                      ELSE [num |-> 0, den |-> 1],
         downloaded_bytes |-> IF both THEN Unwrap(response.completed) ELSE 0,
         total_bytes |-> IF both THEN Unwrap(response.total) ELSE 0,
         error |-> None]

\* the DownloadProgress built from a response; progress is the fraction
\* completed * 100 / total, kept as numerator and denominator
ProgressEvent(response) ==
    LET both == response.completed # None /\ response.total # None
        use == both /\ Unwrap(response.total) > 0
    IN  [status |-> Unwrap(response.status),
         progress |-> IF use
                      THEN [num |-> Unwrap(response.completed) * 100, den |-> Unwrap(response.total)]
                      ELSE [num |-> 0, den |-> 1],
         downloaded_bytes |-> IF use THEN Unwrap(response.completed) ELSE 0,
         total_bytes |-> IF use THEN Unwrap(response.total) ELSE 0,
         error |-> None]

NoItem == [kind |-> "none", bytes |-> <<>>]

NoResult == [kind |-> "none", msg |-> ""]

InitPull ==
    /\ pullPc = "idle"
    /\ wire = <<>>
    /\ sent = <<>>
    /\ item = NoItem
    /\ taken = 0
    /\ chunkStart = 0
    /\ pending = <<>>
    /\ cursor = 0
    /\ parsedOk = 0
    /\ emitted = <<>>
    /\ lastItem = "none"
    /\ result = NoResult

\* client.post(..).send().await: the request fails, or the server answers
\* with a body
PullConnect ==
    /\ UNCHANGED besidesPull
    /\ pullPc = "idle"
    /\ \/ /\ result' = [kind |-> "connect", msg |-> "Failed to start pull"]
          /\ pullPc' = "done"
          /\ UNCHANGED <<wire, sent>>
       \/ \E body \in Bodies :
            /\ wire' = BytesOf(body)
            /\ sent' = BytesOf(body)
            /\ pullPc' = "next"
            /\ UNCHANGED result
    /\ UNCHANGED <<item, taken, chunkStart, pending, cursor, parsedOk, emitted, lastItem>>

\* the network hands over the next k bytes of the body as one chunk
NetChunk(k) ==
    /\ UNCHANGED besidesPull
    /\ pullPc \in {"next", "lines"}
    /\ item = NoItem
    /\ k \in 1..Len(wire)
    /\ item' = [kind |-> "chunk", bytes |-> SubSeq(wire, 1, k)]
    /\ wire' = SubSeq(wire, k + 1, Len(wire))
    /\ UNCHANGED <<pullPc, sent, taken, chunkStart, pending, cursor, parsedOk, emitted,
                   lastItem, result>>

\* reading the body fails
NetFail ==
    /\ UNCHANGED besidesPull
    /\ pullPc \in {"next", "lines"}
    /\ item = NoItem
    /\ item' = [kind |-> "err", bytes |-> <<>>]
    /\ UNCHANGED <<pullPc, wire, sent, taken, chunkStart, pending, cursor, parsedOk, emitted,
                   lastItem, result>>

\* the server has sent the whole body and closes the connection
NetClose ==
    /\ UNCHANGED besidesPull
    /\ pullPc \in {"next", "lines"}
    /\ item = NoItem
    /\ wire = <<>>
    /\ item' = [kind |-> "end", bytes |-> <<>>]
    /\ UNCHANGED <<pullPc, wire, sent, taken, chunkStart, pending, cursor, parsedOk, emitted,
                   lastItem, result>>

Network == (\E k \in 1..(3 * MaxLines) : NetChunk(k)) \/ NetFail \/ NetClose

\* a read error as it would be if the runner ignored it and left the loop
ItemErrorSwallowed == [kind |-> "ok", msg |-> ""]

\* `item.map_err(|e| format!("Stream error: {}", e))?`
ItemError == [kind |-> "read", msg |-> "Stream error"]

\* the Ok(()) after the loop
StreamEnded == [kind |-> "ok", msg |-> ""]

\* the loop after a line: the next line of the chunk, or the next chunk
AfterLine(rest) == IF rest = <<>> THEN "next" ELSE "lines"

\* `while let Some(item) = stream.next().await`: waits until the stream
\* yields; a chunk is split into its lines, an error is returned as "Stream
\* error", the end of the stream leaves the loop and returns Ok(())
PullNext ==
    /\ UNCHANGED besidesPull
    /\ pullPc = "next"
    /\ item # NoItem
    /\ item' = NoItem
    /\ lastItem' = item.kind
    /\ CASE item.kind = "chunk" ->
              /\ pending' = StrLines(item.bytes, taken + 1)
              /\ taken' = taken + Len(item.bytes)
              /\ chunkStart' = taken + 1
              /\ pullPc' = AfterLine(StrLines(item.bytes, taken + 1))
              /\ UNCHANGED result
         [] item.kind = "err" ->
              /\ result' = ItemError
              /\ pullPc' = "done"
              /\ UNCHANGED <<pending, taken, chunkStart>>
         [] item.kind = "end" ->
              /\ result' = StreamEnded
              /\ pullPc' = "done"
              /\ UNCHANGED <<pending, taken, chunkStart>>
    /\ UNCHANGED <<wire, sent, cursor, parsedOk, emitted>>

\* emit as it would be if a later event overtook the earlier ones
EmitFirst(log, ev) == <<ev>> \o log

\* window.emit delivered the event: it follows the events delivered before
Emit(log, ev) == Append(log, ev)

\* an error record as it would be if it were only noted and the loop went on
OnErrorRecordGoOn(rest) == AfterLine(rest)

\* `return Err(error)`: the function is over, whatever the chunk still holds
OnErrorRecord(rest) == "done"

\* the iteration as it would be if a line that does not parse were an error
PullLineStrict ==
    /\ UNCHANGED besidesPull
    /\ pullPc = "lines"
    /\ LET line == Head(pending)
           parsed == FromStr(line.bytes)
       IN  /\ pending' = Tail(pending)
           /\ cursor' = line.at
           /\ IF TrimIsEmpty(line.bytes)
              THEN /\ pullPc' = AfterLine(Tail(pending))
                   /\ UNCHANGED <<parsedOk, emitted, result>>
              ELSE IF ~parsed.ok
              THEN /\ result' = [kind |-> "parse", msg |-> "invalid JSON"]
                   /\ pullPc' = "done"
                   /\ UNCHANGED <<parsedOk, emitted>>
              ELSE /\ parsedOk' = parsedOk + 1
                   /\ IF parsed.response.error # None
                      THEN /\ result' = [kind |-> "remote", msg |-> Unwrap(parsed.response.error)]
                           /\ pullPc' = OnErrorRecord(Tail(pending))
                           /\ UNCHANGED emitted
                      ELSE \E emitOk \in BOOLEAN :
                             IF emitOk
                             THEN /\ emitted' = Emit(emitted, [at |-> line.at,
                                                     data |-> ProgressEvent(parsed.response)])
                                  /\ pullPc' = AfterLine(Tail(pending))
                                  /\ UNCHANGED result
                             ELSE /\ result' = [kind |-> "emit", msg |-> "Failed to emit event"]
                                  /\ pullPc' = "done"
                                  /\ UNCHANGED emitted
    /\ UNCHANGED <<wire, sent, item, taken, chunkStart, lastItem>>

\* the iteration as it would be if the result of window.emit were dropped
PullLineEmitIgnored ==
    /\ UNCHANGED besidesPull
    /\ pullPc = "lines"
    /\ LET line == Head(pending)
           parsed == FromStr(line.bytes)
       IN  /\ pending' = Tail(pending)
           /\ cursor' = line.at
           /\ IF TrimIsEmpty(line.bytes) \/ ~parsed.ok
              THEN /\ pullPc' = AfterLine(Tail(pending))
                   /\ UNCHANGED <<parsedOk, emitted, result>>
              ELSE /\ parsedOk' = parsedOk + 1
                   /\ IF parsed.response.error # None
                      THEN /\ result' = [kind |-> "remote", msg |-> Unwrap(parsed.response.error)]
                           /\ pullPc' = OnErrorRecord(Tail(pending))
                           /\ UNCHANGED emitted
                      ELSE \E emitOk \in BOOLEAN :
                             /\ emitted' = IF emitOk
                                           THEN Emit(emitted, [at |-> line.at,
                                                     data |-> ProgressEvent(parsed.response)])
                                           ELSE emitted
                             /\ pullPc' = AfterLine(Tail(pending))
                             /\ UNCHANGED result
    /\ UNCHANGED <<wire, sent, item, taken, chunkStart, lastItem>>

\* one iteration of `for line in chunk_str.lines()`
PullLine ==
    /\ UNCHANGED besidesPull
    /\ pullPc = "lines"
    /\ LET line == Head(pending)
           parsed == FromStr(line.bytes)
       IN  /\ pending' = Tail(pending)
           /\ cursor' = line.at
           /\ IF TrimIsEmpty(line.bytes) \/ ~parsed.ok
              THEN /\ pullPc' = AfterLine(Tail(pending))
                   /\ UNCHANGED <<parsedOk, emitted, result>>
              ELSE /\ parsedOk' = parsedOk + 1
                   /\ IF parsed.response.error # None
                      THEN /\ result' = [kind |-> "remote", msg |-> Unwrap(parsed.response.error)]
                           /\ pullPc' = OnErrorRecord(Tail(pending))
                           /\ UNCHANGED emitted
                      ELSE \E emitOk \in BOOLEAN :
                             IF emitOk
                             THEN /\ emitted' = Emit(emitted, [at |-> line.at,
                                                     data |-> ProgressEvent(parsed.response)])
                                  /\ pullPc' = AfterLine(Tail(pending))
                                  /\ UNCHANGED result
                             ELSE /\ result' = [kind |-> "emit", msg |-> "Failed to emit event"]
                                  /\ pullPc' = "done"
                                  /\ UNCHANGED emitted
    /\ UNCHANGED <<wire, sent, item, taken, chunkStart, lastItem>>

Runner == PullConnect \/ PullNext \/ PullLine

NextPull == Runner \/ Network

\* records on which the arithmetic of the progress and the test of the error
\* field have their cases: both numbers, a total of 0, one number absent,
\* an error that is the empty string
RecordObjects ==
    { [status |-> Some("pulling"), completed |-> Some(1), total |-> Some(2), error |-> None],
      [status |-> Some("pulling"), completed |-> Some(1), total |-> Some(0), error |-> None],
      [status |-> Some("pulling"), completed |-> Some(1), total |-> None, error |-> None],
      [status |-> Some("verifying"), completed |-> None, total |-> Some(2), error |-> None],
      [status |-> Some("pulling"), completed |-> None, total |-> None, error |-> Some("")] }

\* the bodies made of these records: up to MaxRecords lines
RecordBodies ==
    UNION {[1..n -> {<<ByteOf("head", j), ByteOf("tail", j)>> : j \in RecordObjects}] :
             n \in 0..MaxRecords}

\* client.post(..).send().await, answered with a body of these records
PullConnectRecords ==
    /\ UNCHANGED besidesPull
    /\ pullPc = "idle"
    /\ \E body \in RecordBodies :
         /\ wire' = BytesOf(body)
         /\ sent' = BytesOf(body)
    /\ pullPc' = "next"
    /\ UNCHANGED <<item, taken, chunkStart, pending, cursor, parsedOk, emitted, lastItem,
                   result>>

NextRecords == PullConnectRecords \/ PullNext \/ PullLine \/ Network


-----------------------------------------------------------------------------
(* screenshot/mod.rs: wait_for_clipboard_image *)

\* thread::sleep(Duration::from_millis(1000)) before the first poll
GraceMs == 1000

\* while start.elapsed() < Duration::from_secs(60)
BudgetMs == 60000

\* thread::sleep(Duration::from_millis(500)) between polls
PollMs == 500

\* how long one run of the PowerShell clipboard query may take, in ms
PsDurations == {0, 300}

\* the Base64 text PowerShell prints for the image of the clipboard
ClipboardB64 == "iVBORw0KGgo="

NoWaitResult == [tag |-> "none", success |-> FALSE, image_data |-> None,
                 image_path |-> None, error |-> None]

\* the timeout as it would be if it were returned as an error
TimedOutAsErr ==
    [tag |-> "Err", success |-> FALSE, image_data |-> None, image_path |-> None,
     error |-> Some("Timed out waiting for screenshot or cancelled")]

\* the Ok(ScreenshotResult { success: false, .. }) of the else branch
TimedOutResult ==
    [tag |-> "Ok", success |-> FALSE, image_data |-> None, image_path |-> None,
     error |-> Some("Timed out waiting for screenshot or cancelled")]

\* the Ok(ScreenshotResult { success: true, image_data, .. }) of the if branch
SucceededResult(data) ==
    [tag |-> "Ok", success |-> TRUE, image_data |-> data, image_path |-> None,
     error |-> None]

\* the longest wait of an image the model tells apart
WaitCap == PollMs + 1

\* the wait of the image after d more milliseconds
Waited(w, d) == IF w < 0 THEN w ELSE IF w + d > WaitCap THEN WaitCap ELSE w + d

InitWait ==
    /\ waitPc = "idle"
    /\ elapsed = 0
    /\ clipImage = FALSE
    /\ attempt = 0
    /\ success = FALSE
    /\ imageData = None
    /\ cleanups = 0
    /\ waitResult = NoWaitResult
    /\ everImage = FALSE
    /\ imageWait = -1

\* the call: start = Instant::now(), success = false, image_data = None; the
\* callers have launched the snipping tool after trying to clear the
\* clipboard, which may have failed and left an older image in it
WaitCall ==
    /\ UNCHANGED besidesWait
    /\ waitPc = "idle"
    /\ waitPc' = "grace"
    /\ elapsed' = 0
    /\ success' = FALSE
    /\ imageData' = None
    /\ \E old \in BOOLEAN :
         /\ clipImage' = old
         /\ everImage' = old
         /\ imageWait' = IF old THEN 0 ELSE -1
    /\ UNCHANGED <<attempt, cleanups, waitResult>>

\* the start of the loop as it would be without the initial sleep
WaitGraceSkipped ==
    /\ UNCHANGED besidesWait
    /\ waitPc = "grace"
    /\ attempt' = 0
    /\ waitPc' = "while"
    /\ imageWait' = IF clipImage THEN 0 ELSE -1
    /\ UNCHANGED <<elapsed, clipImage, success, imageData, cleanups, waitResult, everImage>>

\* the initial sleep, then attempt = 0
WaitGrace ==
    /\ UNCHANGED besidesWait
    /\ waitPc = "grace"
    /\ elapsed' = elapsed + GraceMs
    /\ attempt' = 0
    /\ waitPc' = "while"
    /\ imageWait' = IF clipImage THEN 0 ELSE -1
    /\ UNCHANGED <<clipImage, success, imageData, cleanups, waitResult, everImage>>

\* the value returned after the loop
WaitReturn(ok, data) == IF ok THEN SucceededResult(data) ELSE TimedOutResult

\* the loop condition: another poll, or the loop ends and the function returns
WaitWhile ==
    /\ UNCHANGED besidesWait
    /\ waitPc = "while"
    /\ IF elapsed < BudgetMs
       THEN /\ attempt' = attempt + 1
            /\ waitPc' = "probe"
            /\ UNCHANGED waitResult
       ELSE /\ waitResult' = WaitReturn(success, imageData)
            /\ waitPc' = "done"
            /\ UNCHANGED attempt
    /\ UNCHANGED <<elapsed, clipImage, success, imageData, cleanups, everImage, imageWait>>

\* one run of the PowerShell query: it cannot be started, or it prints the
\* image as Base64, or nothing when the clipboard holds no image; on an image
\* the loop breaks after cleanup_latest_screenshot and the function returns
WaitProbe ==
    /\ UNCHANGED besidesWait
    /\ waitPc = "probe"
    /\ \E d \in PsDurations, started \in BOOLEAN :
         LET stdout == IF started /\ clipImage THEN ClipboardB64 ELSE ""
         IN  /\ elapsed' = elapsed + d
             /\ imageWait' = Waited(imageWait, d)
             /\ IF stdout # ""
                THEN /\ imageData' = Some(<<"data:image/png;base64,", stdout>>)
                     /\ success' = TRUE
                     /\ cleanups' = cleanups + 1
                     /\ waitResult' = WaitReturn(TRUE, Some(<<"data:image/png;base64,", stdout>>))
                     /\ waitPc' = "done"
                ELSE /\ waitPc' = "sleep"
                     /\ UNCHANGED <<imageData, success, cleanups, waitResult>>
    /\ UNCHANGED <<clipImage, attempt, everImage>>

\* the sleep at the end of the loop body
WaitSleep ==
    /\ UNCHANGED besidesWait
    /\ waitPc = "sleep"
    /\ elapsed' = elapsed + PollMs
    /\ waitPc' = "while"
    /\ imageWait' = Waited(imageWait, PollMs)
    /\ UNCHANGED <<clipImage, attempt, success, imageData, cleanups, waitResult, everImage>>

\* the user finishes the snip (an image lands in the clipboard) or copies
\* something else over it
ClipboardChange ==
    /\ UNCHANGED besidesWait
    /\ waitPc \in {"grace", "while", "probe", "sleep"}
    /\ clipImage' = ~clipImage
    /\ everImage' = (everImage \/ ~clipImage)
    /\ imageWait' = IF clipImage THEN -1 ELSE 0
    /\ UNCHANGED <<waitPc, elapsed, attempt, success, imageData, cleanups, waitResult>>

NextWait == WaitCall \/ WaitGrace \/ WaitWhile \/ WaitProbe \/ WaitSleep \/ ClipboardChange

-----------------------------------------------------------------------------
(* audio_ai/mod.rs, file_helpers/mod.rs, music/mod.rs: the helper-process   *)
(* invokers and the download cancel flag                                    *)

\* the commands modelled: two commands of audio_ai that only query, its three
\* downloads, one command of file_helpers, and download_spotify of music
Commands ==
    {"check_ai_models", "download_whisper_model", "download_diarization_model",
     "download_denoiser_model", "get_media_info", "download_spotify"}

\* the commands that store false into CANCEL_DOWNLOAD when they start
DownloadCommands ==
    {"download_whisper_model", "download_diarization_model", "download_denoiser_model"}

ModuleOf(c) ==
    IF c = "get_media_info" THEN "file_helpers"
    ELSE IF c = "download_spotify" THEN "music"
    ELSE "audio_ai"

\* the candidate interpreter paths of a module, in the order they are tested
VenvPaths(mod) ==
    CASE mod = "audio_ai" ->
           <<"../.venv/Scripts/python.exe", "../../.venv/Scripts/python.exe",
             ".venv/Scripts/python.exe", "F:/Ask_Ocr/Code/.venv/Scripts/python.exe",
             "F:/Ask_Ocr/Code/python_backend/.venv/Scripts/python.exe">>
      [] mod = "file_helpers" ->
           <<"../../.venv/Scripts/python.exe", "../.venv/Scripts/python.exe",
             ".venv/Scripts/python.exe">>
      [] mod = "music" ->
           <<"../.venv/Scripts/python.exe", "../.venv/bin/python">>

\* the candidate script paths of a module, in the order they are tested
ScriptPaths(mod) ==
    CASE mod = "audio_ai" ->
           <<"../python_backend/audio_ai_helper.py", "../../python_backend/audio_ai_helper.py",
             "python_backend/audio_ai_helper.py",
             "F:/Ask_Ocr/Code/python_backend/audio_ai_helper.py">>
      [] mod = "file_helpers" ->
           <<"../python_backend/media_helper.py", "../../python_backend/media_helper.py",
             "python_backend/media_helper.py">>
      [] mod = "music" ->
           <<"../python_backend/downloader.py", "python_backend/downloader.py">>

\* the message of a module when no candidate script exists
ScriptNotFound(mod) ==
    CASE mod = "audio_ai" -> "Audio AI helper script not found"
      [] mod = "file_helpers" -> "Media helper script not found"
      [] mod = "music" -> "Could not find downloader.py"

\* the message prefix of a module when Command::output() is an error
ExecuteFailed(mod) ==
    IF mod = "audio_ai" THEN "Failed to execute command: "
    ELSE "Failed to execute python script: "

\* a search that returns the last path of the list that exists
LastExisting(paths, files) ==
    LET found == {i \in DOMAIN paths : paths[i] \in files}
    IN  IF found = {} THEN None
        ELSE Some(paths[CHOOSE i \in found : \A j \in found : i >= j])

\* the first path of the list that exists, if any
FirstExisting(paths, files) ==
    LET found == {i \in DOMAIN paths : paths[i] \in files}
    IN  IF found = {} THEN None
        ELSE Some(paths[CHOOSE i \in found : \A j \in found : i <= j])

\* a script lookup that takes the first candidate without testing it
ScriptLookupUntested(mod, files) == Some(ScriptPaths(mod)[1])

\* get_audio_ai_script_path, get_script_path, the lookup in download_spotify
ScriptLookup(mod, files) == FirstExisting(ScriptPaths(mod), files)

\* get_python_executable: the first venv interpreter that exists, else the
\* bare command name
GetPythonExecutable(mod, files) ==
    LET found == FirstExisting(VenvPaths(mod), files)
    IN  IF found = None THEN "python" ELSE Unwrap(found)

\* the scripts of the three modules at their first candidate path
ScriptFiles ==
    {"../python_backend/audio_ai_helper.py", "../python_backend/media_helper.py",
     "../python_backend/downloader.py"}

\* the file systems and search paths a call may find: the files that exist,
\* whether `python` resolves on the search path of the OS, and whether the
\* application data directories of download_spotify can be had
Environments ==
    [files : {{}, {"../.venv/Scripts/python.exe"}, ScriptFiles,
              ScriptFiles \cup {"../.venv/Scripts/python.exe"},
              ScriptFiles \cup {".venv/Scripts/python.exe"},
              {"../../.venv/Scripts/python.exe", ".venv/Scripts/python.exe",
               "../../python_backend/audio_ai_helper.py", "python_backend/audio_ai_helper.py",
               "../../python_backend/media_helper.py", "python_backend/media_helper.py",
               "python_backend/downloader.py"}},
     onPath : BOOLEAN,
     dirsOk : BOOLEAN]

NoEnv == [files |-> {}, onPath |-> FALSE, dirsOk |-> TRUE]

\* ---- texts: sequences of tokens; "\n" is a line break -----------------

RECURSIVE TrimStart(_)
TrimStart(text) ==
    IF text # <<>> /\ Head(text) = "\n" THEN TrimStart(Tail(text)) ELSE text

RECURSIVE TrimEnd(_)
TrimEnd(text) ==
    IF text # <<>> /\ text[Len(text)] = "\n"
    THEN TrimEnd(SubSeq(text, 1, Len(text) - 1))
    ELSE text

\* str::trim
Trim(text) == TrimEnd(TrimStart(text))

\* String::from_utf8_lossy: an invalid byte becomes U+FFFD
FromUtf8Lossy(bytes) ==
    [i \in DOMAIN bytes |-> IF bytes[i] = "\\xFF" THEN "\\uFFFD" ELSE bytes[i]]

\* ---- JSON documents and the result schemas -----------------------------

\* a member of a JSON object: key, type of the value, the value as text
Member(k, t, v) == [k |-> k, t |-> t, v |-> v]

\* the JSON documents a helper may print, each with its text
Documents ==
    { [raw |-> "{\"success\":true,\"message\":\"done\",\"error\":null}",
       doc |-> {Member("success", "bool", "true"), Member("message", "str", "done"),
                Member("error", "null", "null")}],
      [raw |-> "{\"success\":false,\"error\":\"no network\"}",
       doc |-> {Member("success", "bool", "false"), Member("error", "str", "no network")}],
      [raw |-> "{\"whisper_models\":[\"base\"],\"diarization_installed\":true,\"denoiser_installed\":false}",
       doc |-> {Member("whisper_models", "arr", "[base]"),
                Member("diarization_installed", "bool", "true"),
                Member("denoiser_installed", "bool", "false")}],
      [raw |-> "{\"success\":true,\"files\":[\"a.mp3\"]}",
       doc |-> {Member("success", "bool", "true"), Member("files", "arr", "[a.mp3]")}],
      [raw |-> "{\"success\":\"yes\"}",
       doc |-> {Member("success", "str", "yes")}] }

\* a field of a struct that derives Deserialize: name, type, and whether it
\* is required (not an Option)
Field(k, t, req) == [k |-> k, t |-> t, req |-> req]

\* the struct a command parses the output of the helper into
SchemaOf(c) ==
    CASE c = "check_ai_models" ->
           {Field("whisper_models", "arr", TRUE), Field("diarization_installed", "bool", TRUE),
            Field("denoiser_installed", "bool", TRUE)}
      [] c \in DownloadCommands ->
           {Field("success", "bool", TRUE), Field("message", "str", FALSE),
            Field("error", "str", FALSE)}
      [] c = "get_media_info" ->
           {Field("success", "bool", TRUE), Field("file_path", "str", FALSE),
            Field("file_name", "str", FALSE), Field("file_size", "num", FALSE),
            Field("duration", "num", FALSE), Field("bit_rate", "num", FALSE),
            Field("format_name", "str", FALSE), Field("format_long_name", "str", FALSE),
            Field("streams", "obj", FALSE), Field("error", "str", FALSE)}
      [] c = "download_spotify" ->
           {Field("success", "bool", TRUE), Field("files", "arr", FALSE),
            Field("error", "str", FALSE)}

\* the text before the serde error in the parse failure of a command
ParseFailed(c) ==
    CASE c = "check_ai_models" -> "Failed to parse model status: "
      [] c \in DownloadCommands -> "Failed to parse download result: "
      [] c = "get_media_info" -> "Failed to parse media info: "
      [] c = "download_spotify" -> "Failed to parse python output: "

\* the JSON value of a text, if it is one: surrounding white space is allowed
ParseJson(text) ==
    LET docs == {d \in Documents : <<d.raw>> = Trim(text)}
    IN  IF docs = {} THEN None ELSE Some((CHOOSE d \in docs : TRUE).doc)

Ok(v) == [tag |-> "Ok", value |-> v, msg |-> <<>>]

Err(m) == [tag |-> "Err", value |-> <<>>, msg |-> m]

\* a struct built from the required fields alone
StructOfRequired(schema, doc) ==
    [k \in {f.k : f \in schema} |->
        {<<e.t, e.v>> : e \in {e \in doc : e.k = k /\ \E f \in schema : f.k = k /\ f.req}}]

\* the struct serde builds: every field of the schema, with the value of the
\* member of that name, None for an Option that is absent or null; members
\* the schema does not name are ignored
StructOf(schema, doc) ==
    [k \in {f.k : f \in schema} |->
        {<<e.t, e.v>> : e \in {e \in doc : e.k = k /\ e.t # "null"}}]

\* serde_json::from_str into the struct of a schema
FromStrAs(schema, text) ==
    LET j == ParseJson(text)
    IN  IF j = None THEN Err(<<"expected value">>)
        ELSE LET doc == Unwrap(j)
                 mistyped == {f \in schema : \E e \in doc :
                                 /\ e.k = f.k
                                 /\ e.t # f.t
                                 /\ ~(e.t = "null" /\ ~f.req)}
                 missing == {f \in schema : f.req /\ ~\E e \in doc : e.k = f.k}
             IN  IF mistyped # {} THEN Err(<<"invalid type">>)
                 ELSE IF missing # {} THEN Err(<<"missing field">>)
                 ELSE Ok(StructOf(schema, doc))

\* ---- the child process --------------------------------------------------

ExitCodes == {0, 1}

\* what a helper may have written to stdout when it exits
Stdouts ==
    {<<"usage: helper", "\\xFF", "\n">>} \cup {<<d.raw, "\n">> : d \in Documents}

\* what a helper may have written to stderr when it exits
Stderrs == {<<>>, <<"Traceback: boom", "\n">>}

NoChild == [status |-> "none", code |-> 0, stdout |-> <<>>, stderr |-> <<>>]

RunningChild == [status |-> "running", code |-> 0, stdout |-> <<>>, stderr |-> <<>>]

NoInvResult == [tag |-> "none", value |-> <<>>, msg |-> <<>>]

NoCmdline == [exe |-> "", script |-> ""]

\* ---- the three invokers ------------------------------------------------

\* run_python_audio_command after cmd.output() returned the exited child
RunPythonAudioCommand(out) ==
    IF out.code = 0
    THEN Ok(FromUtf8Lossy(out.stdout))
    ELSE Err(<<"Command failed: ">> \o FromUtf8Lossy(out.stderr) \o <<"\n">>
             \o FromUtf8Lossy(out.stdout))

\* run_python_command of file_helpers after cmd.output() returned
RunPythonCommand(out) ==
    IF out.code # 0
    THEN Err(<<"Python script error: ">> \o FromUtf8Lossy(out.stderr))
    ELSE Ok(Trim(FromUtf8Lossy(out.stdout)))

\* the commands of audio_ai: run_python_audio_command(..)?, then from_str
\* with map_err, then Ok(result)
AudioCommandResult(c, out) ==
    LET output == RunPythonAudioCommand(out)
    IN  IF output.tag = "Err" THEN output
        ELSE LET parsed == FromStrAs(SchemaOf(c), output.value)
             IN  IF parsed.tag = "Err"
                 THEN Err(<<ParseFailed(c)>> \o parsed.msg)
                 ELSE parsed

\* the commands of file_helpers: run_python_command(..)?, then from_str
\* with map_err
FileCommandResult(c, out) ==
    LET output == RunPythonCommand(out)
    IN  IF output.tag = "Err" THEN output
        ELSE LET parsed == FromStrAs(SchemaOf(c), output.value)
             IN  IF parsed.tag = "Err"
                 THEN Err(<<ParseFailed(c)>> \o parsed.msg \o <<". Output: ">> \o output.value)
                 ELSE parsed

\* download_spotify after .output() returned: the exit status, the parse,
\* the success field, the files, the import into the library
SpotifyResult(c, out, importOk) ==
    IF out.code # 0
    THEN Err(<<"Python script failed: ">> \o FromUtf8Lossy(out.stderr))
    ELSE LET stdout == FromUtf8Lossy(out.stdout)
             parsed == FromStrAs(SchemaOf(c), stdout)
         IN  IF parsed.tag = "Err"
             THEN Err(<<ParseFailed(c)>> \o parsed.msg \o <<". Output: ">> \o stdout)
             ELSE IF parsed.value["success"] # Some(<<"bool", "true">>)
             THEN IF parsed.value["error"] = None
                  THEN Err(<<"Unknown error">>)
                  ELSE Err(<<Unwrap(parsed.value["error"])[2]>>)
             ELSE IF parsed.value["files"] = None
             THEN Err(<<"No files returned">>)
             ELSE IF importOk
             THEN Ok([k \in {"songs"} |-> parsed.value["files"]])
             ELSE Err(<<"import failed">>)

\* what a command returns once its child has exited
CommandResult(c, out, importOk) ==
    CASE ModuleOf(c) = "audio_ai" -> AudioCommandResult(c, out)
      [] ModuleOf(c) = "file_helpers" -> FileCommandResult(c, out)
      [] ModuleOf(c) = "music" -> SpotifyResult(c, out, importOk)

\* a start of command that clears the flag whatever the command is
FlagClearedAtEntry(c, flag) == FALSE

\* an entry that would leave the flag as it finds it
FlagKeptAtEntry(c, flag) == flag

\* CANCEL_DOWNLOAD after the first statement of a command
FlagAtEntry(c, flag) == IF c \in DownloadCommands THEN FALSE ELSE flag

\* an invoker that starts over after a failure
RetryAfterErr(res) == IF res.tag = "Err" THEN "entered" ELSE "done"

\* where a call is once it has its outcome: it returns, there is no retry
AfterOutcome(res) == "done"

\* a cancel request that would kill the helper
ChildKilledByCancel(c) ==
    IF c.status = "running"
    THEN [status |-> "exited", code |-> 1, stdout |-> <<>>, stderr |-> <<>>]
    ELSE c

\* the child process under cancel_model_download: the request does not
\* reach it
ChildAfterCancel(c) == c

InitInvoke ==
    /\ invPc = "idle"
    /\ invCmd = "none"
    /\ env = NoEnv
    /\ child = NoChild
    /\ spawned = 0
    /\ invCalls = 0
    /\ outcomes = 0
    /\ invResult = NoInvResult
    /\ cancelFlag = FALSE
    /\ cancelAt = "none"
    /\ cmdline = NoCmdline

\* a command is called: the downloads of audio_ai store false into
\* CANCEL_DOWNLOAD first
InvokeCall ==
    /\ UNCHANGED besidesInvoke
    /\ invPc \in {"idle", "done"}
    /\ invCalls < MaxCalls
    /\ \E c \in Commands, e \in Environments :
         /\ (ModuleOf(c) # "music" => e.dirsOk)
         /\ invCmd' = c
         /\ env' = e
         /\ cancelFlag' = FlagAtEntry(c, cancelFlag)
    /\ invPc' = "entered"
    /\ invCalls' = invCalls + 1
    /\ child' = NoChild
    /\ invResult' = NoInvResult
    /\ cancelAt' = "none"
    /\ cmdline' = NoCmdline
    /\ UNCHANGED <<spawned, outcomes>>

\* from the entry to cmd.output(): the directories of download_spotify, the
\* interpreter, the script, then the spawn, which the OS may refuse and
\* which fails when the program cannot be resolved
InvokeSpawn ==
    /\ UNCHANGED besidesInvoke
    /\ invPc = "entered"
    /\ LET mod == ModuleOf(invCmd)
           script == ScriptLookup(mod, env.files)
           exe == GetPythonExecutable(mod, env.files)
           built == [exe |-> exe, script |-> Unwrap(script)]
           fail(m) == /\ invResult' = Err(m)
                      /\ invPc' = AfterOutcome(Err(m))
                      /\ outcomes' = outcomes + 1
                      /\ UNCHANGED <<child, spawned>>
       IN  IF ~env.dirsOk
           THEN fail(<<"Failed to get app data dir">>) /\ UNCHANGED cmdline
           ELSE IF script = None
           THEN fail(<<ScriptNotFound(mod)>>) /\ UNCHANGED cmdline
           ELSE \E started \in BOOLEAN :
                  /\ started => (exe # "python" \/ env.onPath)
                  /\ cmdline' = built
                  /\ IF started
                     THEN /\ child' = RunningChild
                          /\ spawned' = spawned + 1
                          /\ invPc' = "waiting"
                          /\ UNCHANGED <<invResult, outcomes>>
                     ELSE fail(<<ExecuteFailed(mod), "os error">>)
    /\ UNCHANGED <<invCmd, env, invCalls, cancelFlag, cancelAt>>

\* the helper exits on its own, with a status and what it wrote
ChildExit ==
    /\ UNCHANGED besidesInvoke
    /\ child.status = "running"
    /\ \E code \in ExitCodes, out \in Stdouts, err \in Stderrs :
         child' = [status |-> "exited", code |-> code, stdout |-> out, stderr |-> err]
    /\ UNCHANGED <<invPc, invCmd, env, spawned, invCalls, outcomes, invResult,
                   cancelFlag, cancelAt, cmdline>>

\* cmd.output() returns the exited child and the command maps it to its
\* result
InvokeReturn ==
    /\ UNCHANGED besidesInvoke
    /\ invPc = "waiting"
    /\ child.status = "exited"
    /\ \E importOk \in BOOLEAN :
         /\ (ModuleOf(invCmd) # "music" => importOk)
         /\ invResult' = CommandResult(invCmd, child, importOk)
    /\ invPc' = AfterOutcome(invResult')
    /\ outcomes' = outcomes + 1
    /\ UNCHANGED <<invCmd, env, child, spawned, invCalls, cancelFlag, cancelAt, cmdline>>

\* cancel_model_download, at any time
CancelModelDownload ==
    /\ UNCHANGED besidesInvoke
    /\ cancelFlag' = TRUE
    /\ child' = ChildAfterCancel(child)
    /\ cancelAt' = IF invPc \in {"entered", "waiting"}
                   THEN (IF child.status = "none" THEN "entered" ELSE child.status)
                   ELSE cancelAt
    /\ UNCHANGED <<invPc, invCmd, env, spawned, invCalls, outcomes, invResult, cmdline>>

NextInvoke == InvokeCall \/ InvokeSpawn \/ ChildExit \/ InvokeReturn \/ CancelModelDownload

-----------------------------------------------------------------------------

\* the invocations of download commands that the runtime runs side by side
Tasks == {"t1", "t2"}

InitTasks ==
    /\ taskPc = [t \in Tasks |-> "idle"]
    /\ taskCmd = [t \in Tasks |-> "none"]
    /\ inFlightCancel = [t \in Tasks |-> FALSE]
    /\ starts = 0
    /\ lastWrite = "none"

\* a download command starts: its first statement stores false into
\* CANCEL_DOWNLOAD, then it runs the helper
DownloadStart(t) ==
    /\ UNCHANGED besidesTasks
    /\ taskPc[t] \in {"idle", "done"}
    /\ starts < MaxStarts
    /\ \E c \in DownloadCommands :
         /\ taskCmd' = [taskCmd EXCEPT ![t] = c]
         /\ cancelFlag' = FlagAtEntry(c, cancelFlag)
    /\ lastWrite' = "start"
    /\ taskPc' = [taskPc EXCEPT ![t] = "running"]
    /\ inFlightCancel' = [inFlightCancel EXCEPT ![t] = FALSE]
    /\ starts' = starts + 1

\* the helper of a download exits and the command returns; nothing on the
\* way reads CANCEL_DOWNLOAD
DownloadEnd(t) ==
    /\ UNCHANGED besidesTasks
    /\ taskPc[t] = "running"
    /\ taskPc' = [taskPc EXCEPT ![t] = "done"]
    /\ UNCHANGED <<taskCmd, inFlightCancel, starts, lastWrite, cancelFlag>>

\* cancel_model_download while downloads may be running
CancelDuringDownloads ==
    /\ UNCHANGED besidesTasks
    /\ cancelFlag' = TRUE
    /\ lastWrite' = "cancel"
    /\ inFlightCancel' = [t \in Tasks |-> inFlightCancel[t] \/ taskPc[t] = "running"]
    /\ UNCHANGED <<taskPc, taskCmd, starts>>

NextTasks ==
    \/ \E t \in Tasks : DownloadStart(t)
    \/ \E t \in Tasks : DownloadEnd(t)
    \/ CancelDuringDownloads

-----------------------------------------------------------------------------
(* shortcuts/mod.rs: the shortcut commands *)

ShortcutIds == {"capture", "translate"}

Accelerators == {"Ctrl+Shift+A", "Ctrl+Shift+B"}

\* HashMap::get returns None for this id
NoEntry == "none"

\* the accelerators of the configs stored in ShortcutState.shortcuts
StoredAccelerators(map) == {map[i] : i \in {j \in ShortcutIds : map[j] # NoEntry}}

InitShortcuts ==
    /\ registered = {}
    /\ shortcuts = [i \in ShortcutIds |-> NoEntry]
    /\ shortcutCalls = 0
    /\ shortcutResult = "none"

\* the body of register_shortcut; osOk is the outcome of the calls of the
\* manager, is_registered and register
RegisterBody(reg, map, id, acc, osOk) ==
    IF ~osOk
    THEN [registered |-> reg, shortcuts |-> map, result |-> "Err"]
    ELSE IF acc \in reg
    THEN [registered |-> reg, shortcuts |-> map, result |-> "already registered"]
    ELSE [registered |-> reg \cup {acc},
          shortcuts |-> [map EXCEPT ![id] = acc],
          result |-> "Ok"]

\* the body of unregister_shortcut; osOk is the outcome of manager.unregister
UnregisterBody(reg, map, id, osOk) ==
    IF map[id] = NoEntry
    THEN [registered |-> reg, shortcuts |-> map, result |-> "not found"]
    ELSE IF ~osOk
    THEN [registered |-> reg, shortcuts |-> map, result |-> "Err"]
    ELSE [registered |-> reg \ {map[id]},
          shortcuts |-> [map EXCEPT ![id] = NoEntry],
          result |-> "Ok"]

\* a command returns: the manager, the map and the result it leaves
ShortcutReturn(r) ==
    /\ registered' = r.registered
    /\ shortcuts' = r.shortcuts
    /\ shortcutResult' = r.result

RegisterShortcut ==
    /\ UNCHANGED besidesShortcuts
    /\ shortcutCalls < MaxShortcutCalls
    /\ shortcutCalls' = shortcutCalls + 1
    /\ \E id \in ShortcutIds, acc \in Accelerators, osOk \in BOOLEAN :
         ShortcutReturn(RegisterBody(registered, shortcuts, id, acc, osOk))

UnregisterShortcut ==
    /\ UNCHANGED besidesShortcuts
    /\ shortcutCalls < MaxShortcutCalls
    /\ shortcutCalls' = shortcutCalls + 1
    /\ \E id \in ShortcutIds, osOk \in BOOLEAN :
         ShortcutReturn(UnregisterBody(registered, shortcuts, id, osOk))

\* unregister_all_shortcuts: the accelerators of the map are unregistered
\* one by one; when one of the calls fails the function returns before the
\* map is cleared, with those before it unregistered
UnregisterAllShortcuts ==
    /\ UNCHANGED besidesShortcuts
    /\ shortcutCalls < MaxShortcutCalls
    /\ shortcutCalls' = shortcutCalls + 1
    /\ \E undone \in SUBSET StoredAccelerators(shortcuts) :
         IF undone = StoredAccelerators(shortcuts)
         THEN ShortcutReturn([registered |-> registered \ undone,
                              shortcuts |-> [i \in ShortcutIds |-> NoEntry],
                              result |-> "Ok"])
         ELSE ShortcutReturn([registered |-> registered \ undone,
                              shortcuts |-> shortcuts,
                              result |-> "Err"])

\* update_shortcut: unregister_shortcut, and when that is Ok,
\* register_shortcut with the new accelerator
UpdateShortcut ==
    /\ UNCHANGED besidesShortcuts
    /\ shortcutCalls < MaxShortcutCalls
    /\ shortcutCalls' = shortcutCalls + 1
    /\ \E id \in ShortcutIds, acc \in Accelerators, osOk1 \in BOOLEAN, osOk2 \in BOOLEAN :
         LET u == UnregisterBody(registered, shortcuts, id, osOk1)
         IN  IF u.result # "Ok"
             THEN ShortcutReturn(u)
             ELSE ShortcutReturn(RegisterBody(u.registered, u.shortcuts, id, acc, osOk2))

NextShortcuts ==
    RegisterShortcut \/ UnregisterShortcut \/ UnregisterAllShortcuts \/ UpdateShortcut

Init == InitPlayer /\ InitPull /\ InitWait /\ InitInvoke /\ InitTasks /\ InitShortcuts

SpecInvoke == Init /\ [][NextInvoke]_vars

SpecWait == Init /\ [][NextWait]_vars

SpecPull == Init /\ [][NextPull]_vars

SpecRecords == Init /\ [][NextRecords]_vars

SpecTasks == Init /\ [][NextTasks]_vars

SpecShortcuts == Init /\ [][NextShortcuts]_vars

SpecPlayer == Init /\ [][NextPlayer]_vars

-----------------------------------------------------------------------------
(* Properties of the audio worker *)

\* the commands of the accepted history, without their tags
Cmds(h) == [i \in 1..Len(h) |-> h[i].cmd]

CurSeq == IF cur = NoCmd THEN <<>> ELSE <<cur>>

\* every accepted command is executed, in execution, or still in the channel
Accounted == sinkLog \o CurSeq \o chan = Cmds(accepted)

\* (C1) The worker executes the commands in the order the channel accepted
\* them: the i-th command executed is the i-th command enqueued, each
\* producer's commands run in the order it submitted them, and at most one
\* command is in execution, only while the worker is in its exec step.
C1_FifoOrder ==
    /\ Len(sinkLog) + Len(CurSeq) <= Len(accepted)
    /\ \A i \in 1..Len(sinkLog) : sinkLog[i] = accepted[i].cmd
    /\ cur # NoCmd => cur = accepted[Len(sinkLog) + 1].cmd
    /\ (cur # NoCmd) <=> (workerPc = "exec")
    /\ \A i, j \in 1..(Len(sinkLog) + Len(CurSeq)) :
         (i < j /\ accepted[i].from = accepted[j].from) => accepted[i].seq < accepted[j].seq

\* (C1) witness: two different commands of two different producers were
\* both in the channel and have been executed, the older one first
C1_Witness ==
    /\ Len(sinkLog) = 2
    /\ accepted[1].from # accepted[2].from
    /\ sinkLog[1] = [op |-> "Play", arg |-> "a.mp3"]
    /\ sinkLog[2] = [op |-> "Pause", arg |-> 0]
    /\ sink.paused
    /\ earlySend

C3_SendNeverFails ==
    /\ \A p \in Producers : ret[p] \in {"none", "unit"}
    /\ \A p \in Producers : (calls[p] > 0 /\ prodCmd[p] = NoCmd) => ret[p] = "unit"
    /\ dropped > 0 => ~chanOpen
    /\ ~chanOpen => (chan = <<>> /\ sink = NoSink /\ sinkLog = <<>>)
    /\ Len(accepted) + dropped + Cardinality({p \in Producers : prodCmd[p] # NoCmd})
         = TotalCalls
    /\ senderLock # "free" => (prodCmd[senderLock] # NoCmd /\ ENABLED SendDeliver(senderLock))
    /\ \A p \in Producers : prodCmd[p] # NoCmd => senderLock = p

\* (C3) witness: after the worker exited, one producer's command was dropped
\* and its call returned (), as did an earlier delivered call
C3_Witness ==
    /\ ~chanOpen
    /\ dropped >= 1
    /\ Len(accepted) >= 1
    /\ \E p \in Producers :
         /\ ret[p] = "unit"
         /\ prodCmd[p] = NoCmd
         /\ \A i \in 1..Len(accepted) : accepted[i].from # p

C5_SinkOwnedByWorker ==
    [][/\ sink' # sink =>
            \/ workerPc = "init_sink" /\ sink = NoSink /\ sink' = NewSink
            \/ workerPc = "exec" /\ cur # NoCmd /\ sinkLog' = Append(sinkLog, cur)
       /\ (\E p \in Producers : Caller(p)) =>
            /\ sink' = sink
            /\ sourceDone' = sourceDone
            /\ sinkLog' = sinkLog
            /\ chan' = chan \/ \E c \in AudioCommand : chan' = Append(chan, c)]_vars

\* (C5) witness: the sink was changed by an executed Pause while a further
\* command of a caller waits in the channel
C5_Witness ==
    /\ sink.created
    /\ sink.paused
    /\ sinkLog = <<[op |-> "Pause", arg |-> 0]>>
    /\ chan # <<>>

-----------------------------------------------------------------------------
(* Properties of the streamed pull *)

\* what a runner that splits the whole body on line boundaries forwards and
\* returns when every emit succeeds and the stream ends: the events of the
\* records up to the first error record
RECURSIVE WholeBodyRun(_, _)
WholeBodyRun(lines, events) ==
    IF lines = <<>> THEN [events |-> events, result |-> [kind |-> "ok", msg |-> ""]]
    ELSE LET line == Head(lines)
             parsed == FromStr(line.bytes)
         IN  IF TrimIsEmpty(line.bytes) \/ ~parsed.ok
             THEN WholeBodyRun(Tail(lines), events)
             ELSE IF parsed.response.error # None
                  THEN [events |-> events,
                        result |-> [kind |-> "remote", msg |-> Unwrap(parsed.response.error)]]
                  ELSE WholeBodyRun(Tail(lines),
                                    Append(events, [at |-> line.at,
                                                    data |-> ProgressEvent(parsed.response)]))

\* the body holds a whole JSON line at this offset
RecordAt(at) ==
    /\ at \in 1..(Len(sent) - 1)
    /\ FromStr(<<sent[at], sent[at + 1]>>).ok

\* (C6) The events delivered to the window are in the order of the stream:
\* each event is the progress of a record of the body, the records they come
\* from lie at strictly increasing offsets (so none is reordered or
\* delivered twice), within one chunk and across chunks.
C6_EmitInStreamOrder ==
    /\ \A i \in 1..Len(emitted) :
         /\ RecordAt(emitted[i].at)
         /\ emitted[i].data = ProgressEvent(sent[emitted[i].at].v)
         /\ emitted[i].at <= cursor
    /\ \A i, j \in 1..Len(emitted) : i < j => emitted[i].at < emitted[j].at

\* (C6) witness: three events were delivered, the first two from one chunk
\* and the third from a later chunk
C6_Witness ==
    /\ Len(emitted) = 3
    /\ emitted[1].data # emitted[2].data
    /\ emitted[2].at < chunkStart
    /\ chunkStart <= emitted[3].at
    /\ chunkStart = 7

\* (C7) When the runner has parsed a record with an error field it is over
\* and has returned that error: the line it visited last is that record,
\* every record parsed before it was forwarded, every event comes from a line
\* before it, and the rest of the chunk and of the stream stay unvisited.
C7_ErrorRecordStops ==
    result.kind = "remote" =>
        /\ pullPc = "done"
        /\ RecordAt(cursor)
        /\ sent[cursor].v.error = Some(result.msg)
        /\ Len(emitted) = parsedOk - 1
        /\ \A i \in 1..Len(emitted) : emitted[i].at < cursor
        /\ \A i \in 1..Len(pending) : pending[i].at > cursor

\* (C7) witness: one record was forwarded, the second one, of the same
\* chunk, carried an error, and a third line of that chunk was never visited
C7_Witness ==
    /\ result.kind = "remote"
    /\ Len(emitted) = 1
    /\ chunkStart <= emitted[1].at
    /\ pending # <<>>
    /\ cursor < pending[1].at

\* (C8) as claimed: what is parsed and forwarded depends only on the
\* bytes of the body, not on the chunks they arrive in; when the runner is
\* over without a read or an emit failure it has forwarded exactly the events
\* of the lines of the whole body, and returned what they call for.
C8_ChunkingIndependent ==
    result.kind \in {"ok", "remote"} =>
        /\ emitted = WholeBodyRun(StrLines(sent, 1), <<>>).events
        /\ result = WholeBodyRun(StrLines(sent, 1), <<>>).result

\* (C9) as claimed: the runner is over only with success at the end of the
\* stream, with the connection or read error, or on an error record.
C9_OnlyStreamOutcomes ==
    pullPc = "done" => result.kind \in {"ok", "connect", "read", "remote"}

\* (C9) amended: the runner has returned exactly when it is over, with one
\* of: success, only after the stream has ended with every parsed record
\* forwarded; the connection error, before anything was read; the read
\* error, only after the stream yielded an error; an error record's error;
\* an emit failure. While the stream yields nothing the runner cannot step.
C9_Outcomes ==
    /\ (pullPc = "done") <=> (result.kind # "none")
    /\ result.kind \in {"none", "ok", "connect", "read", "remote", "emit"}
    /\ result.kind = "ok" =>
         (lastItem = "end" /\ wire = <<>> /\ taken = Len(sent) /\ pending = <<>>
            /\ Len(emitted) = parsedOk)
    /\ result.kind = "connect" => (lastItem = "none" /\ sent = <<>> /\ emitted = <<>>)
    /\ result.kind = "read" => lastItem = "err"
    /\ result.kind \in {"remote", "emit"} => (lastItem = "chunk" /\ Len(emitted) = parsedOk - 1)
    /\ (pullPc = "next" /\ item = NoItem) => ~ENABLED Runner

\* (C9) witness: the stream stays open after a chunk and yields nothing, the
\* runner waits with one event forwarded
C9_Witness ==
    /\ pullPc = "next"
    /\ item = NoItem
    /\ wire # <<>>
    /\ Len(emitted) = 1

-----------------------------------------------------------------------------
(* Properties of the clipboard watcher *)

\* the state of the watcher's state machine
WatcherState ==
    IF waitPc # "done" THEN "Waiting"
    ELSE IF waitResult.success THEN "Succeeded" ELSE "TimedOut"

\* (C10) wait_for_clipboard_image is Waiting -> {Succeeded | TimedOut}: it
\* has returned exactly when it is over, always an Ok value, which is either
\* success = true with the image data and no error or success = false with
\* no image and the timeout message; Succeeded needs a poll that saw the
\* image, TimedOut an exhausted budget; a terminal state is never left.
C10_WaitingToTerminal ==
    /\ [](/\ (waitPc = "done") <=> (waitResult.tag # "none")
          /\ waitResult.tag \in {"none", "Ok"}
          /\ WatcherState = "Succeeded" =>
               /\ waitResult.image_data = Some(<<"data:image/png;base64,", ClipboardB64>>)
               /\ waitResult.error = None
               /\ success
               /\ cleanups = 1
          /\ WatcherState = "TimedOut" =>
               /\ waitResult.image_data = None
               /\ waitResult.error = Some("Timed out waiting for screenshot or cancelled")
               /\ ~success
               /\ elapsed >= BudgetMs)
    /\ [][WatcherState # "Waiting" => (WatcherState' = WatcherState /\ waitResult' = waitResult)]_vars

\* (C10) witness: the watcher has timed out after polling through the whole
\* budget, and returned the timeout as an Ok value
C10_Witness ==
    /\ WatcherState = "TimedOut"
    /\ waitResult.tag = "Ok"
    /\ attempt > 100

\* (C11) If the clipboard never holds an image during the wait,
\* wait_for_clipboard_image returns TimedOut, not before the budget is
\* reached and no later than the budget plus one poll interval.
C11_TimedOutWithinOnePoll ==
    (waitPc = "done" /\ ~everImage) =>
        /\ waitResult = TimedOutResult
        /\ elapsed >= BudgetMs
        /\ elapsed <= BudgetMs + PollMs

\* (C12) If the clipboard comes to hold an image and keeps it,
\* wait_for_clipboard_image returns Succeeded within one poll interval of the
\* moment the image arrived (of the end of the initial sleep for an image that
\* arrived before it), and it returns Succeeded only from a poll that saw the
\* image.
C12_SucceededWithinOnePoll ==
    (waitPc = "done" /\ waitResult.success) =>
        /\ clipImage
        /\ imageWait >= 0
        /\ imageWait <= PollMs


-----------------------------------------------------------------------------
(* Properties of the helper-process invokers and of the cancel flag *)

\* the document fits the schema: every member is a field of the schema with
\* the type of that field (null for an Option), and no required field is absent
MatchesSchema(schema, doc) ==
    /\ \A e \in doc : \E f \in schema :
           f.k = e.k /\ (e.t = f.t \/ (e.t = "null" /\ ~f.req))
    /\ \A f \in schema : f.req => \E e \in doc : e.k = f.k /\ e.t = f.t

\* the fields of the struct equal the members of the document: every member
\* is there with its value (None for null), and nothing else is
FieldsEqual(value, doc) ==
    /\ \A e \in doc :
           /\ e.k \in DOMAIN value
           /\ value[e.k] = IF e.t = "null" THEN None ELSE Some(<<e.t, e.v>>)
    /\ \A k \in DOMAIN value : value[k] # None => \E e \in doc : e.k = k

\* the text holds the part as a run of consecutive tokens
Contains(text, part) ==
    \E i \in 0..(Len(text) - Len(part)) : SubSeq(text, i + 1, i + Len(part)) = part

\* no candidate script of the module of the command exists
ScriptMissing ==
    \A i \in DOMAIN ScriptPaths(ModuleOf(invCmd)) :
        ScriptPaths(ModuleOf(invCmd))[i] \notin env.files

\* no candidate interpreter exists and the bare command does not resolve
InterpreterMissing ==
    /\ \A i \in DOMAIN VenvPaths(ModuleOf(invCmd)) :
           VenvPaths(ModuleOf(invCmd))[i] \notin env.files
    /\ ~env.onPath

Modules == {"audio_ai", "file_helpers", "music"}

\* how the messages of a spawn failure begin, and those of a child that ran
\* and failed
SpawnFailureTexts ==
    {ScriptNotFound(m) : m \in Modules} \cup {ExecuteFailed(m) : m \in Modules}

RanButFailedTexts == {"Command failed: ", "Python script error: ", "Python script failed: "}

\* the call has not returned yet
InFlight == IF invPc \in {"entered", "waiting"} THEN 1 ELSE 0

\* (C13) When the child of a command of audio_ai exits with status 0 and has
\* written one JSON document that fits the result schema of the command, the
\* command returns Ok with a struct whose fields equal the members of that
\* document.
C13_RoundTrip ==
    (/\ invPc = "done"
     /\ ModuleOf(invCmd) = "audio_ai"
     /\ child.status = "exited"
     /\ child.code = 0) =>
        \A d \in Documents :
            (child.stdout = <<d.raw, "\n">> /\ MatchesSchema(SchemaOf(invCmd), d.doc)) =>
                /\ invResult.tag = "Ok"
                /\ FieldsEqual(invResult.value, d.doc)

\* (C13) witness: download_whisper_model returned the struct of a document
\* with a string, a boolean and a null member
C13_Witness ==
    /\ invPc = "done"
    /\ invCmd = "download_whisper_model"
    /\ child.code = 0
    /\ child.stdout = <<"{\"success\":true,\"message\":\"done\",\"error\":null}", "\n">>
    /\ invResult.tag = "Ok"
    /\ invResult.value["success"] = Some(<<"bool", "true">>)
    /\ invResult.value["message"] = Some(<<"str", "done">>)
    /\ invResult.value["error"] = None

\* (C14) When the script is at no candidate path, or no candidate interpreter
\* exists and the bare command does not resolve, the call returns a spawn
\* failure and creates no child process; a spawn failure never has a child,
\* and its message is never that of a child that ran and failed, which is
\* returned only for a child that exited with a failure status.
C14_SpawnFailureShortCircuit ==
    /\ []((invPc = "done" /\ env.dirsOk) =>
            /\ (ScriptMissing \/ InterpreterMissing) =>
                 /\ invResult.tag = "Err"
                 /\ Head(invResult.msg) \in SpawnFailureTexts
                 /\ child = NoChild
            /\ (invResult.tag = "Err" /\ Head(invResult.msg) \in SpawnFailureTexts) =>
                 /\ child = NoChild
                 /\ Head(invResult.msg) \notin RanButFailedTexts
            /\ (invResult.tag = "Err" /\ Head(invResult.msg) \in RanButFailedTexts) =>
                 /\ child.status = "exited"
                 /\ child.code # 0)
    /\ [][(invPc = "entered" /\ (ScriptMissing \/ InterpreterMissing)) =>
             spawned' = spawned]_vars

\* (C14) witness: after a call that ran a child, a call of audio_ai found its
\* script and no interpreter, and returned the spawn failure without a child
C14_Witness ==
    /\ invPc = "done"
    /\ ModuleOf(invCmd) = "audio_ai"
    /\ InterpreterMissing
    /\ ~ScriptMissing
    /\ invResult = Err(<<"Failed to execute command: ", "os error">>)
    /\ child = NoChild
    /\ invCalls = 2
    /\ spawned = 1

\* (C15) When the child exits with a failure status, each of the three
\* invokers returns an error whose message holds the stderr of the child
\* followed by its stdout (directly or after a line break), never a success.
C15_FailureCarriesStderrAndStdout ==
    (invPc = "done" /\ child.status = "exited" /\ child.code # 0) =>
        /\ invResult.tag = "Err"
        /\ \/ Contains(invResult.msg,
                       FromUtf8Lossy(child.stderr) \o FromUtf8Lossy(child.stdout))
           \/ Contains(invResult.msg,
                       FromUtf8Lossy(child.stderr) \o <<"\n">> \o FromUtf8Lossy(child.stdout))

\* (C16) When the child exits with status 0 and its stdout does not parse
\* into the struct of the command, the command returns an error whose message
\* is the parse-failure text of the command and holds the stdout of the child
\* (at least without its surrounding white space).
C16_ParseFailureCarriesStdout ==
    (/\ invPc = "done"
     /\ child.status = "exited"
     /\ child.code = 0
     /\ FromStrAs(SchemaOf(invCmd), FromUtf8Lossy(child.stdout)).tag = "Err") =>
        /\ invResult.tag = "Err"
        /\ Head(invResult.msg) = ParseFailed(invCmd)
        /\ Contains(invResult.msg, Trim(FromUtf8Lossy(child.stdout)))

\* (C17) A call creates at most one child process and returns exactly one
\* result: a child is created only by a call that has none yet and has not
\* returned, a result ends the call, and so the children ever created are at
\* most as many as the calls and the results exactly as many as the calls that
\* are over.
C17_OneChildOneOutcome ==
    /\ [](/\ spawned <= invCalls
          /\ outcomes + InFlight = invCalls
          /\ (invPc = "done") <=> (invResult.tag # "none"))
    /\ [][spawned' # spawned =>
             /\ spawned' = spawned + 1
             /\ invPc = "entered"
             /\ child = NoChild
             /\ outcomes' = outcomes]_vars
    /\ [][outcomes' # outcomes =>
             /\ outcomes' = outcomes + 1
             /\ invPc' = "done"
             /\ invCalls' = invCalls]_vars

\* (C17) witness: a call that could not spawn and a call whose output did
\* not parse are both over, with one child created in all
C17_Witness ==
    /\ invPc = "done"
    /\ invCalls = 2
    /\ outcomes = 2
    /\ spawned = 1
    /\ invResult.tag = "Err"
    /\ Head(invResult.msg) = ParseFailed(invCmd)
    /\ child.code = 0

\* (C18) CANCEL_DOWNLOAD is false initially; it becomes true by
\* cancel_model_download and by nothing else; the start of each of the three
\* downloads makes it false while the call has no child yet; every other
\* step leaves it as it is.
C18_FlagWrites ==
    /\ cancelFlag = FALSE
    /\ [][/\ (invCalls' # invCalls /\ invCmd' \in DownloadCommands) =>
               (cancelFlag' = FALSE /\ child' = NoChild /\ spawned' = spawned)
          /\ (cancelFlag' /\ ~cancelFlag) => CancelModelDownload
          /\ (cancelFlag /\ ~cancelFlag') =>
               (invCalls' # invCalls /\ invCmd' \in DownloadCommands)
          /\ CancelModelDownload => cancelFlag']_vars

\* (C18) witness: a download has started, which left the flag false, a
\* cancel request during it made the flag true, and the flag has stayed true
\* through the exit of the helper and the return of the call
C18_Witness ==
    /\ invPc = "done"
    /\ invCmd = "download_diarization_model"
    /\ cancelAt = "running"
    /\ cancelFlag
    /\ child.status = "exited"

\* (C19) cancel_model_download does not touch the child process or the
\* call: a running child stops running only by exiting on its own, and a call
\* that started a child has returned only after that child exited.
C19_CancelDoesNotInterrupt ==
    /\ []((invPc = "done" /\ child.status # "none") => child.status = "exited")
    /\ [][CancelModelDownload =>
             (child' = child /\ invPc' = invPc /\ invResult' = invResult)]_vars
    /\ [][(child.status = "running" /\ child'.status # "running") => ChildExit]_vars

\* (C19) witness: a download was cancelled while its helper ran, the helper
\* went on to exit with status 0 and the download returned its result
C19_Witness ==
    /\ invPc = "done"
    /\ invCmd \in DownloadCommands
    /\ cancelAt = "running"
    /\ child.status = "exited"
    /\ child.code = 0
    /\ invResult.tag = "Ok"

\* (C20) A cancel request during a download has an effect the caller sees:
\* either no helper process was started for it or its result is not returned
\* as an ordinary result.
C20_CancelObservable ==
    (invPc = "done" /\ invCmd \in DownloadCommands /\ cancelAt # "none") =>
        (child.status = "none" \/ invResult.tag # "Ok")

\* the path is the first of the list that exists
IsFirstExisting(p, paths, files) ==
    \E i \in DOMAIN paths :
        /\ paths[i] = p
        /\ p \in files
        /\ \A j \in 1..(i - 1) : paths[j] \notin files

\* (C21) The program of the Command a call builds is the first candidate
\* interpreter path that exists, and the bare name "python" exactly when no
\* candidate exists; its script is the first candidate script path that exists.
C21_FirstExistingCandidate ==
    cmdline # NoCmdline =>
        LET mod == ModuleOf(invCmd)
            noVenv == \A i \in DOMAIN VenvPaths(mod) : VenvPaths(mod)[i] \notin env.files
        IN  /\ (cmdline.exe = "python") <=> noVenv
            /\ ~noVenv => IsFirstExisting(cmdline.exe, VenvPaths(mod), env.files)
            /\ IsFirstExisting(cmdline.script, ScriptPaths(mod), env.files)

\* (C21) witness: with the second and the third candidate interpreter and the
\* second and the third candidate script in place, a command of audio_ai runs
\* the second of each
C21_Witness ==
    /\ ModuleOf(invCmd) = "audio_ai"
    /\ child.status = "running"
    /\ {"../../.venv/Scripts/python.exe", ".venv/Scripts/python.exe"} \subseteq env.files
    /\ cmdline = [exe |-> "../../.venv/Scripts/python.exe",
                  script |-> "../../python_backend/audio_ai_helper.py"]


-----------------------------------------------------------------------------
(* Further properties of the streamed pull *)

\* (C22) Every forwarded event reports completed / total * 100 when the
\* record has both numbers and a total above 0, with the two numbers as
\* downloaded and total bytes; it reports 0%, 0 bytes of 0 when a number is
\* absent and when total is 0, whatever completed is; no progress is a
\* division by zero.
C22_ProgressArithmetic ==
    \A i \in 1..Len(emitted) :
        LET r == sent[emitted[i].at].v
            e == emitted[i].data
        IN  /\ e.progress.den # 0
            /\ IF r.completed # None /\ r.total # None /\ Unwrap(r.total) # 0
               THEN /\ e.progress.num * Unwrap(r.total)
                         = Unwrap(r.completed) * 100 * e.progress.den
                    /\ e.downloaded_bytes = Unwrap(r.completed)
                    /\ e.total_bytes = Unwrap(r.total)
               ELSE /\ e.progress.num = 0
                    /\ e.downloaded_bytes = 0
                    /\ e.total_bytes = 0

\* (C22) witness: a record with completed 1 of total 0 and a record with
\* completed 1 of total 2 were forwarded, as 0% and as 50%
C22_Witness ==
    /\ Len(emitted) = 2
    /\ sent[emitted[1].at].v.total = Some(0)
    /\ sent[emitted[1].at].v.completed = Some(1)
    /\ emitted[1].data.progress.num = 0
    /\ emitted[1].data.downloaded_bytes = 0
    /\ emitted[2].data.progress = [num |-> 100, den |-> 2]
    /\ emitted[2].data.total_bytes = 2

\* (C24) A line that is not blank and does not parse is skipped: the
\* iteration that visits it delivers no event, returns nothing, and goes on
\* with the next line of the chunk or with the next chunk.
C24_UnparsedLineSkipped ==
    [][(/\ pullPc = "lines"
        /\ pending' # pending
        /\ ~TrimIsEmpty(Head(pending).bytes)
        /\ ~FromStr(Head(pending).bytes).ok) =>
           /\ emitted' = emitted
           /\ parsedOk' = parsedOk
           /\ result' = result
           /\ result.kind = "none"
           /\ pullPc' = IF Tail(pending) = <<>> THEN "next" ELSE "lines"]_vars

\* (C24) witness: the first line of the body is a whole line that does not
\* parse, the record on the line after it, in the same chunk, was forwarded,
\* and the runner returned success at the end of the stream
C24_Witness ==
    /\ result.kind = "ok"
    /\ Len(sent) >= 6
    /\ sent[1].k = "head"
    /\ sent[1].v.status = None
    /\ Len(emitted) = 1
    /\ emitted[1].at = 4
    /\ parsedOk = 1

\* (C25) Only a record with a non-empty error field is terminal: the runner
\* returns the error of a record only when that error is not the empty string.
C25_OnlyNonEmptyErrorTerminal ==
    result.kind = "remote" => result.msg # ""

\* (C29) When window.emit fails the runner is over with that failure: the
\* line it visited last is the record whose event was not delivered, no event
\* comes from that line or a later one, the rest of the chunk stays unvisited,
\* and the failure stays the outcome whatever the stream does afterwards.
C29_EmitFailureAborts ==
    /\ [](result.kind = "emit" =>
            /\ pullPc = "done"
            /\ RecordAt(cursor)
            /\ sent[cursor].v.error = None
            /\ Len(emitted) = parsedOk - 1
            /\ \A i \in 1..Len(emitted) : emitted[i].at < cursor
            /\ \A i \in 1..Len(pending) : pending[i].at > cursor)
    /\ [][result.kind = "emit" =>
             UNCHANGED <<result, pullPc, emitted, parsedOk, cursor, pending>>]_vars
    /\ [][(/\ pullPc = "lines"
           /\ pending' # pending
           /\ FromStr(Head(pending).bytes).ok
           /\ FromStr(Head(pending).bytes).response.error = None
           /\ emitted' = emitted) =>
             (result'.kind = "emit" /\ pullPc' = "done")]_vars

\* (C29) witness: after one event was delivered the emit of the second record
\* failed, a third line of the chunk is left unvisited and the body has been
\* sent to its end
C29_Witness ==
    /\ result.kind = "emit"
    /\ Len(emitted) = 1
    /\ pending # <<>>
    /\ wire = <<>>

-----------------------------------------------------------------------------
(* Further properties of the Play arm *)

\* (C23) The iteration that executes a Play whose file opens and decodes
\* leaves the sink with the new source as its only source, not ended, and
\* not paused, whatever the sink held before; the volume is untouched.
C23_PlayReplaces ==
    [][(sinkLog' # sinkLog /\ cur.op = "Play" /\ ~FailingPlay(cur)) =>
          /\ sink'.queue = <<cur.arg>>
          /\ ~sink'.paused
          /\ ~sourceDone'
          /\ sink'.volume = sink.volume]_vars

\* (C23) witness: a Pause was executed, then a Play of a good file; the sink
\* paused by the Pause plays the one new source
C23_Witness ==
    /\ sinkLog = <<[op |-> "Pause", arg |-> 0], [op |-> "Play", arg |-> "a.mp3"]>>
    /\ sink.queue = <<"a.mp3">>
    /\ ~sink.paused

\* (C27) The iteration that executes a Play whose file does not open or does
\* not decode leaves the sink as it was: the same sources, ended or not as
\* before, the same paused state, volume and position; the loop goes on.
C27_FailingPlayKeepsSink ==
    [][(sinkLog' # sinkLog /\ FailingPlay(cur)) =>
          /\ sink' = sink
          /\ sourceDone' = sourceDone
          /\ workerPc' = "recv"]_vars

\* (C27) witness: a good file was played and a Play of a missing file was
\* executed after it; the first source is still queued and has not ended
C27_Witness ==
    /\ sinkLog = <<[op |-> "Play", arg |-> "a.mp3"], [op |-> "Play", arg |-> "missing.mp3"]>>
    /\ sink.queue = <<"a.mp3">>
    /\ ~sourceDone
    /\ ~sink.paused

-----------------------------------------------------------------------------
(* Further properties of the clipboard wait *)

\* (C26) The clipboard is never queried before the initial sleep is over;
\* cleanup_latest_screenshot has run once when the wait has succeeded and not
\* at all before that or when it has timed out; it runs in the very step
\* whose query saw the image, and that step ends the wait with success.
C26_GraceThenCleanupOnce ==
    /\ [](/\ waitPc \in {"probe", "sleep"} => elapsed >= GraceMs
          /\ attempt > 0 => elapsed >= GraceMs
          /\ cleanups = IF waitPc = "done" /\ success THEN 1 ELSE 0
          /\ (waitPc = "done" /\ waitResult = TimedOutResult) => cleanups = 0)
    /\ [][cleanups' # cleanups =>
             /\ waitPc = "probe"
             /\ clipImage
             /\ cleanups' = cleanups + 1
             /\ success'
             /\ waitPc' = "done"
             /\ waitResult' = SucceededResult(imageData')]_vars
    /\ [][(waitPc = "probe" /\ waitPc' = "done") => cleanups' = cleanups + 1]_vars

\* (C26) witness: the second query, made after the initial sleep and one
\* poll interval, saw the image; the wait succeeded with one cleanup
C26_Witness ==
    /\ waitPc = "done"
    /\ success
    /\ attempt = 2
    /\ cleanups = 1
    /\ elapsed >= GraceMs + PollMs
    /\ waitResult = SucceededResult(imageData)

-----------------------------------------------------------------------------
(* CANCEL_DOWNLOAD under downloads that run side by side *)

\* (C28) With two downloads and cancel requests interleaved, CANCEL_DOWNLOAD
\* is always what the last store left: true after a cancel, false after the
\* start of any download, false before any store. The start of a download
\* erases a cancel requested for the other one, and a download that starts
\* after a cancel runs to its end like any other.
C28_LastWriteWins ==
    /\ [](cancelFlag = (lastWrite = "cancel"))
    /\ [][\A t \in Tasks : (taskPc[t] # "running" /\ taskPc'[t] = "running") =>
             ~cancelFlag']_vars
    /\ [](\A t \in Tasks : taskPc[t] = "running" => ENABLED DownloadEnd(t))

\* (C28) witness: a cancel was requested while t1 was running, then t2
\* started; both run and the flag is false
C28_Witness ==
    /\ taskPc["t1"] = "running"
    /\ inFlightCancel["t1"]
    /\ taskPc["t2"] = "running"
    /\ ~inFlightCancel["t2"]
    /\ lastWrite = "start"
    /\ ~cancelFlag

-----------------------------------------------------------------------------
(* The shortcut manager and ShortcutState *)

\* (C30) After any sequence of register_shortcut, unregister_shortcut,
\* unregister_all_shortcuts and update_shortcut the accelerators registered
\* with the global shortcut manager are the accelerators stored in
\* ShortcutState.shortcuts.
C30_ManagerMatchesState ==
    registered = StoredAccelerators(shortcuts)

=============================================================================
